---- MODULE Spec2Model ----
(***************************************************************************)
(* Model of loam::CtRot2DScanRegistration (continuous-rotation 2D scan     *)
(* registration): handleCloudMessage -> process -> reset, extractFeatures, *)
(* publishResult.                                                          *)
(*                                                                         *)
(* Lengths are integers in millimetres, so the 0.0001 m^2 filter threshold *)
(* is 100 mm^2; ranges stay near 100 mm so that the squared products of    *)
(* the bearing comparison fit TLC's 32-bit integers.  Times are integer    *)
(* ticks.  A point whose `finite` field is FALSE has a NaN coordinate.     *)
(* Container indices are 0-based as in the C++ code; TLA+ sequences are    *)
(* 1-based, so element i is seq[i + 1].  Floating-point rounding is not    *)
(* modelled: comparisons are exact.                                        *)
(***************************************************************************)
EXTENDS Integers, Sequences, FiniteSets, TLC

VARIABLES systemDelay, laserRotDir, sweepStart, scanTime, laserCloud,
          cornerPointsSharp, cornerPointsLessSharp, surfacePointsFlat,
          surfacePointsLessFlat, published, crashed, calls, config, last,
          arrived, processedSeq

vars == <<systemDelay, laserRotDir, sweepStart, scanTime, laserCloud,
          cornerPointsSharp, cornerPointsLessSharp, surfacePointsFlat,
          surfacePointsLessFlat, published, crashed, calls, config, last,
          arrived, processedSeq>>

(***************************************************************************)
(* Bounds of the model.                                                    *)
(***************************************************************************)
MaxCalls == 2
MaxTime == 4
MaxFill == 20
MaxCloud == 30
MaxRegions == 5

(***************************************************************************)
(* Program constants.                                                      *)
(***************************************************************************)
SYSTEM_DELAY == 2
EdgeMargin == 5
NumRegionSlots == 4
LessSharpFactor == 10
MinSquaredNorm == 100

CORNER_SHARP == 2
CORNER_LESS_SHARP == 1
SURFACE_LESS_FLAT == 0
SURFACE_FLAT == -1

\* size_t and int arithmetic.  TLC's integers have 32 bits, so the 64-bit
\* size_t is modelled with a 28-bit word and the 32-bit int with a 16-bit
\* word: every in-range value of the model is far below 2^15, a wrapped
\* difference is far above it, and 3 * (a wrapped value) still fits TLC.
SizeMod == 2 ^ 28
IntMax == 2 ^ 15 - 1

Min(a, b) == IF a < b THEN a ELSE b

(***************************************************************************)
(* Points.                                                                 *)
(***************************************************************************)
Pt(px, py, pz) == [x |-> px, y |-> py, z |-> pz, finite |-> TRUE]

PointA == Pt(100, 0, 0)
PointB == Pt(0, 100, 0)
PointSmall == Pt(5, 0, 0)
PointNaN == [x |-> 0, y |-> 0, z |-> 0, finite |-> FALSE]
\* squared norm exactly at the 100 mm^2 threshold
PointEdge == Pt(6, 8, 0)
EndPointSet == {PointA, PointB, PointSmall, PointNaN}

\* first and last raw point of a batch
EndPairs ==
  {<<PointA, PointB>>, <<PointB, PointA>>, <<PointA, PointA>>,
   <<PointNaN, PointB>>, <<PointA, PointNaN>>,
   <<PointSmall, PointB>>, <<PointB, PointSmall>>,
   <<PointEdge, PointB>>, <<PointNaN, PointSmall>>}

FillPoint(k) ==
  CASE k % 3 = 0 -> Pt(60, 80, 0)
    [] k % 3 = 1 -> Pt(0, 60, 80)
    [] OTHER     -> Pt(80, 0, 60)

GarbagePoint == [x |-> -1, y |-> -1, z |-> -1]

\* pcl_isfinite on the three coordinates
IsFinitePoint(p) == p.finite

SquaredNorm(p) == p.x * p.x + p.y * p.y + p.z * p.z

\* the axis permutation of lines 138-140
RemapAxes(p) == [x |-> p.y, y |-> p.z, z |-> p.x]

\* the two skip tests of lines 143-152, on the remapped point
KeepPointMut(p) ==
  /\ IsFinitePoint(p)
  /\ ~(SquaredNorm(RemapAxes(p)) <= MinSquaredNorm)
KeepPoint(p) ==
  /\ IsFinitePoint(p)
  /\ ~(SquaredNorm(RemapAxes(p)) < MinSquaredNorm)

\* the loop of lines 137-164: valid points in input order
RECURSIVE FilterCloud(_)
FilterCloud(cloudIn) ==
  IF cloudIn = <<>> THEN <<>>
  ELSE IF KeepPoint(Head(cloudIn))
       THEN <<RemapAxes(Head(cloudIn))>> \o FilterCloud(Tail(cloudIn))
       ELSE FilterCloud(Tail(cloudIn))

(***************************************************************************)
(* Motion undistortion (lines 154-161).  The IMU capability answers        *)
(* setIMUTransformFor(relTime) with the position drift accumulated up to   *)
(* that in-scan time, and transformToStartIMU removes the drift from the   *)
(* point.                                                                  *)
(***************************************************************************)
\* float relTime = 0 (line 155), for the k-th retained point of n
relTime(k, n) == 0

ImuDriftAtScanStart == 10
ImuDriftPerUnitTime == 4

setIMUTransformFor(t) == ImuDriftAtScanStart + ImuDriftPerUnitTime * t

transformToStartIMU(p, shift) == [x |-> p.x + shift, y |-> p.y, z |-> p.z]

\* the in-scan times handed to setIMUTransformFor while the loop of lines
\* 137-164 runs: one per retained point with IMU data, none without
RelTimesPassed(cloudIn, hasIMUData) ==
  LET n == Len(FilterCloud(cloudIn))
  IN IF hasIMUData THEN [k \in 1 .. n |-> relTime(k - 1, n)] ELSE <<>>

\* laserCloudScan after the loop of lines 137-164
laserCloudScan(cloudIn, hasIMUData) ==
  LET kept == FilterCloud(cloudIn)
      n == Len(kept)
  IN [k \in 1 .. n |->
        IF hasIMUData
        THEN transformToStartIMU(kept[k], setIMUTransformFor(relTime(k - 1, n)))
        ELSE kept[k]]

(***************************************************************************)
(* Bearing between the first and last raw point (lines 106-120).  The sign *)
(* of a/ra - b/rb, with ra, rb the ranges, is the sign of                  *)
(* sgn(a) a^2 rb^2 - sgn(b) b^2 ra^2.  A NaN coordinate or a zero range    *)
(* makes the angle NaN.                                                    *)
(***************************************************************************)
Sgn(v) == IF v > 0 THEN 1 ELSE IF v < 0 THEN -1 ELSE 0

SignedSquare(v) == Sgn(v) * v * v

UnitDiffSign(a, ra2, b, rb2) == Sgn(SignedSquare(a) * rb2 - SignedSquare(b) * ra2)

\* calcPointDistance yields 0 or NaN: the division yields NaN
DirectionIsNaN(p) == ~p.finite \/ SquaredNorm(p) = 0

\* sign of atan2(last.x - first.x, last.y - first.y) on the normalised points;
\* "nan" when the angle is NaN
LaserAngleSign(first, lastPt) ==
  IF DirectionIsNaN(first) \/ DirectionIsNaN(lastPt) THEN "nan"
  ELSE LET dx == UnitDiffSign(lastPt.x, SquaredNorm(lastPt), first.x, SquaredNorm(first))
           dy == UnitDiffSign(lastPt.y, SquaredNorm(lastPt), first.y, SquaredNorm(first))
       IN IF dx > 0 THEN "pos"
          ELSE IF dx < 0 THEN "neg"
          ELSE IF dy < 0 THEN "pos"
          ELSE "zero"

\* laserAngle * _laserRotDir < 0 (line 123)
AngleAgainstDir(angleSign, rotDir) ==
  \/ angleSign = "pos" /\ rotDir < 0
  \/ angleSign = "neg" /\ rotDir > 0

\* the condition of lines 123-124
NewSweepCondMut(angleSign, rotDir, stamp, start, period) ==
  AngleAgainstDir(angleSign, rotDir) /\ stamp - start >= period
NewSweepCond(angleSign, rotDir, stamp, start, period) ==
  AngleAgainstDir(angleSign, rotDir) /\ stamp - start > period


(***************************************************************************)
(* Region partition (lines 178-186, 196-198).  cloudSize is a size_t, so   *)
(* cloudSize - 10 and cloudSize - 6 wrap modulo 2^64; int(double) is       *)
(* defined only for values an int can hold.                                *)
(***************************************************************************)
WrapSub(a, b) == (a - b) % SizeMod

\* int(num / den.0) for a non-negative num
ToInt(num, den) == num \div den

\* the conversions of lines 180-185 are all in range
PartitionDefined(n) ==
  LET m == WrapSub(n, 2 * EdgeMargin)
  IN /\ ToInt(m, 4) <= IntMax
     /\ ToInt(m, 2) <= IntMax
     /\ ToInt((3 * m) % SizeMod, 4) <= IntMax

StartPointsMut(n) ==
  LET m == WrapSub(n, 2 * EdgeMargin)
  IN <<EdgeMargin,
       EdgeMargin + 2 + ToInt(m, 4),
       EdgeMargin + 2 + ToInt(m, 2),
       EdgeMargin + 2 + ToInt((3 * m) % SizeMod, 4)>>
StartPoints(n) ==
  LET m == WrapSub(n, 2 * EdgeMargin)
  IN <<EdgeMargin,
       EdgeMargin + 1 + ToInt(m, 4),
       EdgeMargin + 1 + ToInt(m, 2),
       EdgeMargin + 1 + ToInt((3 * m) % SizeMod, 4)>>

EndPoints(n) ==
  LET m == WrapSub(n, 2 * EdgeMargin)
  IN <<EdgeMargin + ToInt(m, 4),
       EdgeMargin + ToInt(m, 2),
       EdgeMargin + ToInt((3 * m) % SizeMod, 4),
       WrapSub(n, EdgeMargin + 1)>>

\* size_t regionSize = ep - sp (line 198)
RegionSize(sp, ep) == WrapSub(ep, sp)

(***************************************************************************)
(* Region Buffer Provider and suppression capability (ScanRegistration).   *)
(***************************************************************************)
\* setRegionBuffersFor(sp, ep-1): curvature-ascending, stable permutation of
\* the scan indices sp .. ep-1
RegionSortIndices(sp, ep, curv) ==
  LET idx == sp .. (ep - 1)
      Rank(i) == Cardinality({k \in idx : \/ curv[k] < curv[i]
                                          \/ curv[k] = curv[i] /\ k < i})
  IN [p \in 1 .. (ep - sp) |-> CHOOSE i \in idx : Rank(i) = p - 1]

\* setRegionBuffersFor: every label of the region starts as SURFACE_LESS_FLAT
RegionLabelInit(sp, ep) == [k \in 0 .. (ep - sp - 1) |-> SURFACE_LESS_FLAT]

\* markAsPicked(scanIdx, scanIdx): the index and a neighbourhood of radius r
MarkAsPicked(picked, scanIdx, r) ==
  [k \in DOMAIN picked |->
     IF k >= scanIdx - r /\ k <= scanIdx + r THEN 1 ELSE picked[k]]

(***************************************************************************)
(* Corner pass (lines 204-226).                                            *)
(***************************************************************************)
\* size_t j = regionSize - 1
CornerLoopStart(regionSize) == WrapSub(regionSize, 1)

CornerLoopCondMut(cfg, j, num) == j > 0 /\ num <= cfg.maxCornerLessSharp
CornerLoopCond(cfg, j, num) == j > 0 /\ num < cfg.maxCornerLessSharp

\* the acceptance test of lines 209-210
CornerAcceptMut(cfg, picked, curv, scanIdx) ==
  curv[scanIdx] > cfg.surfaceCurvatureThreshold
CornerAccept(cfg, picked, curv, scanIdx) ==
  picked[scanIdx] = 0 /\ curv[scanIdx] > cfg.surfaceCurvatureThreshold

\* the num-th accepted corner reaches the break of line 221
CornerBreaks(cfg, num) ==
  /\ ~(num <= cfg.maxCornerSharp)
  /\ ~(num <= cfg.maxCornerSharp * LessSharpFactor)

\* the label given to the num-th accepted corner (lines 213-218)
CornerLabelFor(cfg, num) ==
  IF num <= cfg.maxCornerSharp THEN CORNER_SHARP ELSE CORNER_LESS_SHARP

RECURSIVE CornerPass(_, _, _, _, _, _, _, _)
CornerPass(cfg, curv, sp, sortIdx, r, j, num, acc) ==
  IF ~CornerLoopCond(cfg, j, num) THEN acc
  ELSE LET scanIdx == sortIdx[j + 1]
           regionIdx == scanIdx - sp
       IN IF CornerAccept(cfg, acc.picked, curv, scanIdx)
          THEN LET lab == CornerLabelFor(cfg, num + 1)
               IN IF CornerBreaks(cfg, num + 1) THEN acc
                  ELSE CornerPass(cfg, curv, sp, sortIdx, r, j - 1, num + 1,
                         [acc EXCEPT
                            !.label[regionIdx] = lab,
                            !.sharp = IF lab = CORNER_SHARP
                                      THEN Append(@, scanIdx) ELSE @,
                            !.lessSharp = IF lab = CORNER_LESS_SHARP
                                          THEN Append(@, scanIdx) ELSE @,
                            !.picked = MarkAsPicked(@, scanIdx, r)])
          ELSE CornerPass(cfg, curv, sp, sortIdx, r, j - 1, num, acc)

(***************************************************************************)
(* Surface pass (lines 229-243).                                           *)
(***************************************************************************)
SurfaceLoopCond(cfg, j, regionSize, num) ==
  j < regionSize /\ num < cfg.maxSurfaceFlat

SurfaceAccept(cfg, picked, curv, scanIdx) ==
  picked[scanIdx] = 0 /\ curv[scanIdx] < cfg.surfaceCurvatureThreshold

RECURSIVE SurfacePass(_, _, _, _, _, _, _, _, _)
SurfacePass(cfg, curv, sp, sortIdx, r, regionSize, j, num, acc) ==
  IF ~SurfaceLoopCond(cfg, j, regionSize, num) THEN acc
  ELSE LET scanIdx == sortIdx[j + 1]
           regionIdx == scanIdx - sp
       IN IF SurfaceAccept(cfg, acc.picked, curv, scanIdx)
          THEN SurfacePass(cfg, curv, sp, sortIdx, r, regionSize, j + 1, num + 1,
                 [acc EXCEPT
                    !.label[regionIdx] = SURFACE_FLAT,
                    !.flat = Append(@, scanIdx),
                    !.picked = MarkAsPicked(@, scanIdx, r)])
          ELSE SurfacePass(cfg, curv, sp, sortIdx, r, regionSize, j + 1, num, acc)

(***************************************************************************)
(* Less-flat collection (lines 246-250).                                   *)
(***************************************************************************)
LessFlatCondMut(lab) == lab <= CORNER_LESS_SHARP
LessFlatCond(lab) == lab <= SURFACE_LESS_FLAT

LessFlatCollectMut(label, sp, regionSize, j) ==
  [k \in 1 .. (regionSize - j) |-> sp + j + k - 1]
RECURSIVE LessFlatCollect(_, _, _, _)
LessFlatCollect(label, sp, regionSize, j) ==
  IF ~(j < regionSize) THEN <<>>
  ELSE (IF LessFlatCond(label[j]) THEN <<sp + j>> ELSE <<>>)
       \o LessFlatCollect(label, sp, regionSize, j + 1)


(***************************************************************************)
(* One iteration of the region loop (lines 195-251).  A cloud entry is a   *)
(* scan index, or -1 for a point read out of range.  The record of a       *)
(* region keeps its final labels and `open`, the indices of the region     *)
(* whose neighbour-picked flag is still 0 when its corner loop ends.       *)
(*                                                                         *)
(* Undefined behaviour: an out-of-range int conversion (cloudSize < 10), a *)
(* read of startPoints[i] with i >= 4, a region whose size wraps (ep < sp) *)
(* and a region of size 0 (the corner loop starts at j = SIZE_MAX) all     *)
(* read buffers out of range.  The outcome `ub` is either "crash" (the     *)
(* process dies there) or "garbage" (the reads return arbitrary values:    *)
(* the corner loop can then only end through its quota, so it accepts      *)
(* garbage points until the quota is used, and the loop goes on).  A       *)
(* region whose size wraps always ends in a crash: its less-flat loop      *)
(* would have to walk 2^64 entries.                                        *)
(***************************************************************************)
RegionFaultKind(cfg, n, i) ==
  IF ~PartitionDefined(n) THEN "int_conversion"
  ELSE IF i >= NumRegionSlots THEN "region_array_oob"
  ELSE LET sp == StartPoints(n)[i + 1]
           ep == EndPoints(n)[i + 1]
       IN IF ep < sp THEN "region_wrapped"
          ELSE IF /\ RegionSize(sp, ep) = 0
                  /\ CornerLoopCond(cfg, CornerLoopStart(RegionSize(sp, ep)), 0)
               THEN "empty_region_oob"
          ELSE "none"

RECURSIVE GarbageCornerPass(_, _, _)
GarbageCornerPass(cfg, num, es) ==
  IF ~CornerLoopCond(cfg, 1, num) THEN es
  ELSE LET lab == CornerLabelFor(cfg, num + 1)
       IN IF CornerBreaks(cfg, num + 1) THEN es
          ELSE GarbageCornerPass(cfg, num + 1,
                 [es EXCEPT
                    !.sharp = IF lab = CORNER_SHARP THEN Append(@, -1) ELSE @,
                    !.lessSharp = IF lab = CORNER_LESS_SHARP
                                  THEN Append(@, -1) ELSE @])

RegionStep(cfg, n, curv, r, ub, i, es) ==
  LET kind == RegionFaultKind(cfg, n, i)
  IN IF kind # "none"
     THEN LET es1 == [es EXCEPT !.fault = IF @ = "none" THEN kind ELSE @]
          IN IF ub = "crash" \/ kind = "region_wrapped"
             THEN [es1 EXCEPT !.crashed = TRUE]
             ELSE GarbageCornerPass(cfg, 0, es1)
     ELSE LET sp == StartPoints(n)[i + 1]
              ep == EndPoints(n)[i + 1]
              regionSize == RegionSize(sp, ep)
              sortIdx == RegionSortIndices(sp, ep, curv)
              acc0 == [picked |-> es.picked, label |-> RegionLabelInit(sp, ep),
                       sharp |-> es.sharp, lessSharp |-> es.lessSharp,
                       flat |-> es.flat]
              acc1 == CornerPass(cfg, curv, sp, sortIdx, r,
                                 CornerLoopStart(regionSize), 0, acc0)
              acc2 == SurfacePass(cfg, curv, sp, sortIdx, r, regionSize, 0, 0, acc1)
          IN [es EXCEPT
                !.picked = acc2.picked,
                !.sharp = acc2.sharp,
                !.lessSharp = acc2.lessSharp,
                !.flat = acc2.flat,
                !.lessFlat = @ \o LessFlatCollect(acc2.label, sp, regionSize, 0),
                !.regions = Append(@, [sp |-> sp, ep |-> ep, label |-> acc2.label,
                                       open |-> {k \in sp .. (ep - 1) :
                                                   acc1.picked[k] = 0}])]

RECURSIVE RegionLoop(_, _, _, _, _, _, _)
RegionLoop(cfg, n, curv, r, ub, i, es) ==
  IF ~(i < cfg.nFeatureRegions) \/ es.crashed THEN es
  ELSE RegionLoop(cfg, n, curv, r, ub, i + 1, RegionStep(cfg, n, curv, r, ub, i, es))

(***************************************************************************)
(* Spatial downsampling capability (pcl::VoxelGrid): one centroid per      *)
(* occupied cubic cell of the leaf size, in cell order.                    *)
(***************************************************************************)
Cell(p, leaf) == <<p.x \div leaf, p.y \div leaf, p.z \div leaf>>

CellKey(c) == c[1] + c[2] * 64 + c[3] * 64 * 64

RECURSIVE SumOver(_, _)
SumOver(f, S) ==
  IF S = {} THEN 0
  ELSE LET i == CHOOSE k \in S : TRUE IN f[i] + SumOver(f, S \ {i})

Downsample(pts, leaf) ==
  LET cells == {Cell(pts[i], leaf) : i \in DOMAIN pts}
      Members(c) == {i \in DOMAIN pts : Cell(pts[i], leaf) = c}
      Centroid(c) ==
        LET I == Members(c)
        IN [x |-> SumOver([i \in I |-> pts[i].x], I) \div Cardinality(I),
            y |-> SumOver([i \in I |-> pts[i].y], I) \div Cardinality(I),
            z |-> SumOver([i \in I |-> pts[i].z], I) \div Cardinality(I)]
      Rank(c) == Cardinality({d \in cells : CellKey(d) < CellKey(c)})
  IN [k \in 1 .. Cardinality(cells) |->
        Centroid(CHOOSE c \in cells : Rank(c) = k - 1)]

(***************************************************************************)
(* extractFeatures (lines 176-261).                                        *)
(***************************************************************************)
\* _laserCloud[entry], or whatever lies out of range
PointAt(cloud, entry) == IF entry < 0 THEN GarbagePoint ELSE cloud[entry + 1]

PointsAt(cloud, entries) == [k \in DOMAIN entries |-> PointAt(cloud, entries[k])]

\* _surfacePointsLessFlat += surfPointsLessFlatScanDS (line 260)
AccumulateMut(acc, ds) == ds
Accumulate(acc, ds) == acc \o ds

extractFeatures(cfg, n, curv, picked0, r, ub) ==
  RegionLoop(cfg, n, curv, r, ub, 0,
             [picked |-> picked0, sharp |-> <<>>, lessSharp |-> <<>>,
              flat |-> <<>>, lessFlat |-> <<>>, regions |-> <<>>,
              fault |-> "none", crashed |-> FALSE])


(***************************************************************************)
(* Inputs of one message: the raw batch and its stamp, and what the        *)
(* collaborators answer for it (scripted curvature, the flags left by      *)
(* setScanBuffersFor, the suppression radius, the outcome of undefined     *)
(* behaviour, the points an out-of-range read of the raw batch returns,     *)
(* whether the IMU capability has data).                                   *)
(***************************************************************************)
CurvLevels == 4
MaxRadius == 1

\* first point, k fill points, last point
Batch(first, k, lastPt) == <<first>> \o [i \in 1 .. k |-> FillPoint(i)] \o <<lastPt>>

FillBatch(k) == [i \in 1 .. k |-> FillPoint(i)]

MainFillCounts == {0, 9, MaxFill}

MainBatches ==
  {<<>>} \cup {Batch(e[1], k, e[2]) : e \in EndPairs, k \in MainFillCounts}

ExtractBatches == {FillBatch(k) : k \in 0 .. MaxCloud}

\* every step-th point of a batch is a NaN point, a near-zero point or a
\* point at the threshold, in turn
OddPoint(j) ==
  CASE j % 3 = 1 -> PointNaN
    [] j % 3 = 2 -> PointSmall
    [] OTHER     -> PointEdge

MixedBatch(k, step) ==
  [i \in 1 .. k |-> IF i % step = 0 THEN OddPoint(i \div step) ELSE FillPoint(i)]

IngestBatches ==
  {MixedBatch(k, step) : k \in {12, 24, MaxCloud}, step \in {2, 3, 5, MaxCloud + 1}}

\* curvature of scan index i under profile <<a, b>>
CurvOf(prof, i) == (prof[1] * i + prof[2]) % CurvLevels

AllProfiles == (0 .. CurvLevels - 1) \X (0 .. CurvLevels - 1)
MainProfiles == {<<0, 0>>, <<1, 0>>}

\* flags after setScanBuffersFor(0, cloudSize)
PickedOf(pk, i) ==
  CASE pk = "none" -> 0
    [] pk = "even" -> IF i % 2 = 0 THEN 1 ELSE 0
    [] OTHER       -> IF i % 3 = 0 THEN 1 ELSE 0

AllPickedProfiles == {"none", "even", "third"}

ExtractFaulty(cfg, n) ==
  \E i \in 0 .. cfg.nFeatureRegions - 1 : RegionFaultKind(cfg, n, i) # "none"

\* the inputs that matter for this batch and configuration
Envs(cfg, batch, profs, pks, radii, imus) ==
  LET n == Len(FilterCloud(batch))
      featured == PartitionDefined(n)
      faulty == batch = <<>> \/ ExtractFaulty(cfg, n)
  IN [g1 : IF batch = <<>> THEN EndPointSet ELSE {PointA},
      g2 : IF batch = <<>> THEN {PointA, PointB} ELSE {PointA},
      prof : IF featured THEN profs ELSE {<<0, 0>>},
      pk : IF featured THEN pks ELSE {"none"},
      r : IF featured THEN radii ELSE {0},
      imu : IF n > 0 THEN imus ELSE {FALSE},
      ub : IF faulty THEN {"crash", "garbage"} ELSE {"crash"}]

(***************************************************************************)
(* Configuration (RegistrationParams).  Curvature is an integer level and  *)
(* the threshold is level 1; the scan period is in ticks, the leaf size in *)
(* millimetres.                                                            *)
(***************************************************************************)
Cfg(nr, mcs, mcls, msf) ==
  [nFeatureRegions |-> nr, maxCornerSharp |-> mcs, maxCornerLessSharp |-> mcls,
   maxSurfaceFlat |-> msf, surfaceCurvatureThreshold |-> 1, scanPeriod |-> 1,
   lessFlatFilterSize |-> 20]

DefaultConfig == Cfg(NumRegionSlots, 1, 2, 1)

MainConfigs == {DefaultConfig}

ExtractConfigs ==
  {Cfg(nr, 1, 2, 1) : nr \in 1 .. MaxRegions}
  \cup {Cfg(NumRegionSlots, mcs, mcls, msf) :
          mcs \in 0 .. 2, mcls \in {0, 1, 3}, msf \in {0, 2}}

(***************************************************************************)
(* ScanRegistration::reset(scanTime, newSweep): the per-scan clouds are    *)
(* cleared every scan, the per-sweep state at a sweep boundary.            *)
(***************************************************************************)
resetSweepOnly(st, stamp, newSweep) ==
  [st EXCEPT
     !.scanTime = stamp,
     !.sweepStart = IF newSweep THEN stamp ELSE @,
     !.cornerPointsSharp = IF newSweep THEN <<>> ELSE @,
     !.cornerPointsLessSharp = IF newSweep THEN <<>> ELSE @,
     !.surfacePointsFlat = IF newSweep THEN <<>> ELSE @,
     !.surfacePointsLessFlat = IF newSweep THEN <<>> ELSE @]
reset(st, stamp, newSweep) ==
  [st EXCEPT
     !.scanTime = stamp,
     !.sweepStart = IF newSweep THEN stamp ELSE @,
     !.cornerPointsSharp = <<>>,
     !.cornerPointsLessSharp = <<>>,
     !.surfacePointsFlat = <<>>,
     !.surfacePointsLessFlat = IF newSweep THEN <<>> ELSE @]

\* ScanRegistration::publishResult(): the five clouds and the stamp
publishResult(st) ==
  [count |-> st.published.count + 1,
   stamp |-> st.scanTime,
   laserCloud |-> st.laserCloud,
   cornerPointsSharp |-> st.cornerPointsSharp,
   cornerPointsLessSharp |-> st.cornerPointsLessSharp,
   surfacePointsFlat |-> st.surfacePointsFlat,
   surfacePointsLessFlat |-> st.surfacePointsLessFlat]

NoPublication ==
  [count |-> 0, stamp |-> 0, laserCloud |-> <<>>, cornerPointsSharp |-> <<>>,
   cornerPointsLessSharp |-> <<>>, surfacePointsFlat |-> <<>>,
   surfacePointsLessFlat |-> <<>>]

(***************************************************************************)
(* process (lines 100-173) on the object state st.  The result carries the *)
(* new object state and a record of what the call did.                     *)
(***************************************************************************)
\* laserCloudIn.points[0] and points[cloudSize - 1] (lines 106-107)
RawFirst(batch, env) == IF batch = <<>> THEN env.g1 ELSE batch[1]
RawLast(batch, env) == IF batch = <<>> THEN env.g2 ELSE batch[Len(batch)]

NoCall ==
  [called |-> FALSE, batch |-> <<>>, stamp |-> 0, dirBefore |-> 1,
   startBefore |-> 0, lessFlatBefore |-> <<>>, angleSign |-> "zero",
   newSweep |-> FALSE, fault |-> "none", n |-> 0, regions |-> <<>>,
   sharp |-> <<>>, lessSharp |-> <<>>, flat |-> <<>>, lessFlat |-> <<>>,
   lessFlatDS |-> <<>>, emitted |-> FALSE, prof |-> <<0, 0>>, pk |-> "none",
   r |-> 0, built |-> FALSE, hasIMUData |-> FALSE, relTimes |-> <<>>]

process(st, cfg, batch, stamp, env) ==
  LET call0 == [NoCall EXCEPT
                  !.called = TRUE, !.batch = batch, !.stamp = stamp,
                  !.dirBefore = st.laserRotDir, !.startBefore = st.sweepStart,
                  !.lessFlatBefore = st.surfacePointsLessFlat,
                  !.prof = env.prof, !.pk = env.pk, !.r = env.r,
                  !.hasIMUData = env.imu]
  IN IF batch = <<>> /\ env.ub = "crash"
     THEN [st |-> [st EXCEPT !.crashed = TRUE],
           call |-> [call0 EXCEPT !.fault = "empty_batch_oob"]]
     ELSE
       LET angleSign == LaserAngleSign(RawFirst(batch, env), RawLast(batch, env))
           newSweep == NewSweepCond(angleSign, st.laserRotDir, stamp,
                                    st.sweepStart, cfg.scanPeriod)
           st1 == [st EXCEPT !.laserRotDir = IF newSweep THEN -1 * @ ELSE @]
           st2 == reset(st1, stamp, newSweep)
           cloud == laserCloudScan(batch, env.imu)
           n == Len(cloud)
           curv == [i \in 0 .. n - 1 |-> CurvOf(env.prof, i)]
           picked0 == [i \in 0 .. n - 1 |-> PickedOf(env.pk, i)]
           es == extractFeatures(cfg, n, curv, picked0, env.r, env.ub)
           ds == Downsample(PointsAt(cloud, es.lessFlat), cfg.lessFlatFilterSize)
           st3 == [st2 EXCEPT
                     !.laserCloud = cloud,
                     !.cornerPointsSharp = @ \o PointsAt(cloud, es.sharp),
                     !.cornerPointsLessSharp = @ \o PointsAt(cloud, es.lessSharp),
                     !.surfacePointsFlat = @ \o PointsAt(cloud, es.flat)]
           call1 == [call0 EXCEPT
                       !.angleSign = angleSign, !.newSweep = newSweep, !.n = n,
                       !.fault = IF batch = <<>> THEN "empty_batch_oob" ELSE es.fault,
                       !.regions = es.regions, !.sharp = es.sharp,
                       !.lessSharp = es.lessSharp, !.flat = es.flat,
                       !.lessFlat = es.lessFlat, !.built = TRUE,
                       !.relTimes = RelTimesPassed(batch, env.imu)]
       IN IF es.crashed
          THEN [st |-> [st3 EXCEPT !.crashed = TRUE], call |-> call1]
          ELSE LET st4 == [st3 EXCEPT
                             !.surfacePointsLessFlat = Accumulate(@, ds)]
               IN [st |-> [st4 EXCEPT !.published = publishResult(st4)],
                   call |-> [call1 EXCEPT !.lessFlatDS = ds, !.emitted = TRUE]]

(***************************************************************************)
(* State machine.                                                          *)
(***************************************************************************)
ObjectState ==
  [laserRotDir |-> laserRotDir, sweepStart |-> sweepStart, scanTime |-> scanTime,
   laserCloud |-> laserCloud, cornerPointsSharp |-> cornerPointsSharp,
   cornerPointsLessSharp |-> cornerPointsLessSharp,
   surfacePointsFlat |-> surfacePointsFlat,
   surfacePointsLessFlat |-> surfacePointsLessFlat,
   published |-> published, crashed |-> crashed]

\* the state after the constructor (lines 43-49); ros::Time() is 0
InitWith(delay, configs) ==
  /\ systemDelay = delay
  /\ laserRotDir = 1
  /\ sweepStart = 0
  /\ scanTime = 0
  /\ laserCloud = <<>>
  /\ cornerPointsSharp = <<>>
  /\ cornerPointsLessSharp = <<>>
  /\ surfacePointsFlat = <<>>
  /\ surfacePointsLessFlat = <<>>
  /\ published = NoPublication
  /\ crashed = FALSE
  /\ calls = 0
  /\ config \in configs
  /\ last = NoCall
  /\ arrived = 0
  /\ processedSeq = <<>>

\* handleCloudMessage (lines 84-96) for one delivered message
WarmingUpMut(delay) == delay >= 0
WarmingUp(delay) == delay > 0

handleCloudMessage(batch, stamp, env) ==
  IF WarmingUp(systemDelay)
  THEN /\ systemDelay' = systemDelay - 1
       /\ last' = NoCall
       /\ arrived' = arrived + 1
       /\ UNCHANGED <<laserRotDir, sweepStart, scanTime, laserCloud,
                      cornerPointsSharp, cornerPointsLessSharp,
                      surfacePointsFlat, surfacePointsLessFlat, published,
                      crashed, calls, config, processedSeq>>
  ELSE \E res \in {process(ObjectState, config, batch, stamp, env)} :
          /\ laserRotDir' = res.st.laserRotDir
          /\ sweepStart' = res.st.sweepStart
          /\ scanTime' = res.st.scanTime
          /\ laserCloud' = res.st.laserCloud
          /\ cornerPointsSharp' = res.st.cornerPointsSharp
          /\ cornerPointsLessSharp' = res.st.cornerPointsLessSharp
          /\ surfacePointsFlat' = res.st.surfacePointsFlat
          /\ surfacePointsLessFlat' = res.st.surfacePointsLessFlat
          /\ published' = res.st.published
          /\ crashed' = res.st.crashed
          /\ calls' = calls + 1
          /\ last' = res.call
          /\ arrived' = arrived + 1
          /\ processedSeq' = Append(processedSeq, arrived + 1)
          /\ UNCHANGED <<systemDelay, config>>

\* one message handed to the callback; the transport hands over at most
\* maxMsgs of them, and none to a process that died
Deliver(batches, stamps, profs, pks, radii, imus, maxMsgs) ==
  /\ ~crashed
  /\ arrived < maxMsgs
  /\ \E batch \in batches :
       \E stamp \in {t \in stamps : t >= scanTime} :
         \E env \in Envs(config, batch, profs, pks, radii, imus) :
           handleCloudMessage(batch, stamp, env)

Init == InitWith(SYSTEM_DELAY, MainConfigs)

Next ==
  Deliver(MainBatches, 0 .. MaxTime, MainProfiles, {"none"}, {MaxRadius},
          {FALSE}, SYSTEM_DELAY + MaxCalls)

Spec == Init /\ [][Next]_vars

\* one scan of any size and curvature, delivered after the warm-up
InitExtract == InitWith(0, ExtractConfigs)

NextExtract ==
  Deliver(ExtractBatches, {0}, AllProfiles, AllPickedProfiles, 0 .. MaxRadius,
          {FALSE}, 1)

SpecExtract == InitExtract /\ [][NextExtract]_vars

\* one scan with invalid points in between, with and without IMU data,
\* delivered after the warm-up
InitIngest == InitWith(SYSTEM_DELAY, MainConfigs)

NextIngest ==
  Deliver(IngestBatches, 0 .. MaxTime, MainProfiles, {"none"}, {MaxRadius},
          BOOLEAN, SYSTEM_DELAY + 1)

SpecIngest == InitIngest /\ [][NextIngest]_vars


(***************************************************************************)
(* Properties.  `last` records the latest process call: its inputs, the    *)
(* state it started from and what its passes did.                          *)
(***************************************************************************)
Interval(reg) == reg.sp .. (reg.ep - 1)

CountLabel(reg, lab) == Cardinality({k \in DOMAIN reg.label : reg.label[k] = lab})

\* the scan indices among the entries of a cloud
Indices(entries) == {entries[k] : k \in {j \in DOMAIN entries : entries[j] >= 0}}

NoRepeat(entries) ==
  \A j, k \in DOMAIN entries :
    (j # k /\ entries[j] >= 0) => entries[j] # entries[k]

Interior(n) == EdgeMargin .. (n - EdgeMargin - 1)

AllRegionsDone ==
  /\ last.called
  /\ last.fault = "none"
  /\ Len(last.regions) = config.nFeatureRegions

\* C1: with the default 4 regions, the half-open intervals [start, end) that
\* extractFeatures classifies cover [5, validCount - 5) exactly, without gap
\* or overlap, and consecutive regions share their boundary
\* (end_k = start_{k+1}).
C1_RegionsCoverInterior ==
  (AllRegionsDone /\ config.nFeatureRegions = NumRegionSlots) =>
    /\ UNION {Interval(last.regions[k]) : k \in DOMAIN last.regions}
         = Interior(last.n)
    /\ \A k \in 1 .. (Len(last.regions) - 1) :
         last.regions[k].ep = last.regions[k + 1].sp

\* C2: in every region of every scan, after both passes, at most
\* maxCornerSharp points are labelled CORNER_SHARP, at most
\* maxCornerLessSharp are labelled CORNER_SHARP or CORNER_LESS_SHARP, and at
\* most maxSurfaceFlat are labelled SURFACE_FLAT.
C2_RegionQuotas ==
  last.called =>
    \A k \in DOMAIN last.regions :
      LET reg == last.regions[k]
      IN /\ CountLabel(reg, CORNER_SHARP) <= config.maxCornerSharp
         /\ CountLabel(reg, CORNER_SHARP) + CountLabel(reg, CORNER_LESS_SHARP)
              <= config.maxCornerLessSharp
         /\ CountLabel(reg, SURFACE_FLAT) <= config.maxSurfaceFlat

\* a region in which all three quotas are used up
C2_QuotasReached ==
  /\ last.called
  /\ config.maxCornerSharp >= 1
  /\ config.maxCornerLessSharp > config.maxCornerSharp
  /\ config.maxSurfaceFlat >= 1
  /\ \E k \in DOMAIN last.regions :
       LET reg == last.regions[k]
       IN /\ CountLabel(reg, CORNER_SHARP) = config.maxCornerSharp
          /\ CountLabel(reg, CORNER_SHARP) + CountLabel(reg, CORNER_LESS_SHARP)
               = config.maxCornerLessSharp
          /\ CountLabel(reg, SURFACE_FLAT) = config.maxSurfaceFlat

\* C5 as stated: no scan index is put into more than one of the four classes
\* of a scan (sharp, less sharp, flat, less-flat candidates), and the four
\* hold no more points together than the filtered scan.
C5_FourClassesDisjoint ==
  (last.called /\ last.fault = "none") =>
    /\ Indices(last.sharp) \cap Indices(last.lessSharp) = {}
    /\ Indices(last.sharp) \cap Indices(last.flat) = {}
    /\ Indices(last.sharp) \cap Indices(last.lessFlat) = {}
    /\ Indices(last.lessSharp) \cap Indices(last.flat) = {}
    /\ Indices(last.lessSharp) \cap Indices(last.lessFlat) = {}
    /\ Indices(last.flat) \cap Indices(last.lessFlat) = {}
    /\ Cardinality(Indices(last.sharp)) + Cardinality(Indices(last.lessSharp))
         + Cardinality(Indices(last.flat)) + Cardinality(Indices(last.lessFlat))
         <= last.n

\* C5 as amended: the sharp, less-sharp and flat classes of a scan are
\* pairwise disjoint, no corner is a less-flat candidate, no index is put
\* twice into a class, every flat point is also a less-flat candidate, and
\* the corners and the less-flat candidates together hold no more points
\* than the filtered scan.
C5_ClassesDisjointFlatInLessFlat ==
  last.called =>
    /\ Indices(last.sharp) \cap Indices(last.lessSharp) = {}
    /\ Indices(last.sharp) \cap Indices(last.flat) = {}
    /\ Indices(last.lessSharp) \cap Indices(last.flat) = {}
    /\ Indices(last.sharp) \cap Indices(last.lessFlat) = {}
    /\ Indices(last.lessSharp) \cap Indices(last.lessFlat) = {}
    /\ NoRepeat(last.sharp) /\ NoRepeat(last.lessSharp)
    /\ NoRepeat(last.flat) /\ NoRepeat(last.lessFlat)
    /\ Indices(last.flat) \subseteq Indices(last.lessFlat)
    /\ Cardinality(Indices(last.sharp)) + Cardinality(Indices(last.lessSharp))
         + Len(last.lessFlat) <= last.n

\* a scan with points in each of the four classes
C5_AllClassesPopulated ==
  /\ AllRegionsDone
  /\ last.sharp # <<>>
  /\ last.lessSharp # <<>>
  /\ last.flat # <<>>
  /\ Len(last.lessFlat) > Len(last.flat)

\* C8: a region of zero length that the region loop reaches is passed
\* without any out-of-range read and without labelling a point.
C8_EmptyRegionShortCircuits ==
  last.called =>
    \A i \in 0 .. (Min(config.nFeatureRegions, NumRegionSlots) - 1) :
      ( /\ PartitionDefined(last.n)
        /\ StartPoints(last.n)[i + 1] = EndPoints(last.n)[i + 1]
        /\ Len(last.regions) >= i
        /\ last.fault \notin {"int_conversion", "region_wrapped", "empty_batch_oob"} )
      => /\ last.fault = "none"
         /\ Len(last.regions) > i
         /\ DOMAIN last.regions[i + 1].label = {}

\* C9: for any configured nFeatureRegions the scan is classified in exactly
\* that many regions, contiguous, non-overlapping, covering the
\* cloudSize - 10 interior points with sizes that differ by at most one.
C9_RegionCountIsConfigured ==
  ( /\ last.called
    /\ PartitionDefined(last.n)
    /\ last.n - 2 * EdgeMargin >= 3 * config.nFeatureRegions )
  => /\ last.fault = "none"
     /\ Len(last.regions) = config.nFeatureRegions
     /\ last.regions[1].sp = EdgeMargin
     /\ last.regions[Len(last.regions)].ep = last.n - EdgeMargin
     /\ \A k \in 1 .. (Len(last.regions) - 1) :
          last.regions[k].ep = last.regions[k + 1].sp
     /\ \A j, k \in DOMAIN last.regions :
          RegionSize(last.regions[j].sp, last.regions[j].ep)
            - RegionSize(last.regions[k].sp, last.regions[k].ep) <= 1


\* the raw end points of the latest batch, and the bearing sign they give
\* (an empty batch has none: the call read them out of range)
RawAngleSign ==
  IF last.batch = <<>> THEN last.angleSign
  ELSE LaserAngleSign(last.batch[1], last.batch[Len(last.batch)])

SignDisagrees(sign, dir) ==
  \/ sign = "pos" /\ dir = -1
  \/ sign = "neg" /\ dir = 1

\* C3: a call declares a new sweep exactly when the bearing sign disagrees
\* with the rotation direction it found and the stamp exceeds the last sweep
\* start by strictly more than scanPeriod; the direction is negated in
\* exactly those calls, is unchanged otherwise, and is always +1 or -1.
C3_NewSweepIffFlipAndElapsed ==
  /\ laserRotDir \in {-1, 1}
  /\ ~last.called => laserRotDir = 1
  /\ last.called =>
       /\ last.newSweep <=>
            ( /\ SignDisagrees(RawAngleSign, last.dirBefore)
              /\ last.stamp - last.startBefore > config.scanPeriod )
       /\ laserRotDir = IF last.newSweep THEN -1 * last.dirBefore
                        ELSE last.dirBefore

\* after a declared sweep, a sign flip exactly scanPeriod after the sweep
\* start declares nothing
C3_FlipHeldBackByGate ==
  /\ last.called
  /\ last.dirBefore = -1
  /\ RawAngleSign = "pos"
  /\ last.stamp - last.startBefore = config.scanPeriod
  /\ ~last.newSweep
  /\ laserRotDir = -1

\* C4: a batch with fewer than 11 valid points is handled as a no-feature
\* scan: no crash and no out-of-range read, no point added to a feature
\* cloud, the filtered scan emitted, the sweep state intact.
C4_DegenerateScanHandled ==
  (last.called /\ Len(FilterCloud(last.batch)) < 11) =>
    /\ ~crashed
    /\ last.fault = "none"
    /\ cornerPointsSharp = <<>>
    /\ cornerPointsLessSharp = <<>>
    /\ surfacePointsFlat = <<>>
    /\ surfacePointsLessFlat
         = IF last.newSweep THEN <<>> ELSE last.lessFlatBefore
    /\ last.emitted
    /\ published.laserCloud = FilterCloud(last.batch)
    /\ laserRotDir = IF last.newSweep THEN -1 * last.dirBefore
                     ELSE last.dirBefore
    /\ sweepStart = IF last.newSweep THEN last.stamp ELSE last.startBefore

\* C6: the less-flat accumulator is emptied in the calls that declare a
\* sweep boundary and in no other: after a call it is its previous content
\* (nothing, at a boundary) followed by the downsampled less-flat candidates
\* of the call's scan.
C6_AccumulatorClearedOnlyAtBoundary ==
  /\ ~last.called => surfacePointsLessFlat = <<>>
  /\ last.called =>
       surfacePointsLessFlat
         = (IF last.newSweep THEN <<>> ELSE last.lessFlatBefore)
           \o (IF last.emitted
               THEN Downsample(PointsAt(laserCloud, last.lessFlat),
                               config.lessFlatFilterSize)
               ELSE <<>>)

\* a call without boundary that appends to a non-empty accumulator
C6_KeptAcrossNonBoundaryCall ==
  /\ last.called
  /\ ~last.newSweep
  /\ last.lessFlatBefore # <<>>
  /\ last.lessFlatDS # <<>>
  /\ Len(surfacePointsLessFlat) > Len(last.lessFlatBefore)

\* C7: when a call emits its result, the sharp, less-sharp and flat clouds
\* hold exactly the points the call's own passes picked from its scan
\* buffer, boundary or not; nothing of an earlier scan is left in them.
C7_PerScanCloudsHoldOnlyThisScan ==
  (last.called /\ last.emitted) =>
    /\ published.laserCloud = laserCloud
    /\ published.cornerPointsSharp = PointsAt(published.laserCloud, last.sharp)
    /\ published.cornerPointsLessSharp
         = PointsAt(published.laserCloud, last.lessSharp)
    /\ published.surfacePointsFlat = PointsAt(published.laserCloud, last.flat)

\* a non-boundary call with picks of its own, after a scan of the same sweep
\* that left features behind
C7_SecondScanOfSweepEmitted ==
  /\ last.called
  /\ last.emitted
  /\ ~last.newSweep
  /\ last.fault = "none"
  /\ last.lessFlatBefore # <<>>
  /\ last.sharp # <<>>
  /\ last.flat # <<>>
  /\ Len(published.surfacePointsLessFlat) > Len(last.lessFlatDS)

\* C10: the sweep-boundary decision of a call (here: of one that runs without
\* fault) is the one its first and last valid points give; invalid points at
\* the ends of the batch do not change it.
C10_BoundaryFromValidEndPoints ==
  LET valid == SelectSeq(last.batch, KeepPoint)
  IN (last.called /\ last.fault = "none" /\ valid # <<>>) =>
       ( last.newSweep <=>
           ( /\ SignDisagrees(LaserAngleSign(valid[1], valid[Len(valid)]),
                              last.dirBefore)
             /\ last.stamp - last.startBefore > config.scanPeriod ) )

\* the points C11 keeps: all coordinates finite, squared norm not below the
\* threshold
IsValidInput(p) == p.finite /\ SquaredNorm(p) >= MinSquaredNorm

Elements(cloud) == {cloud[k] : k \in DOMAIN cloud}

\* C11: the scan buffer a call builds is the input points with finite
\* coordinates and squared norm not below 0.0001 m^2, in input order (axes
\* remapped, undistorted when IMU data exist); the dropped points are in no
\* feature output: every feature a call without fault picks is an index of
\* the scan buffer, and the emitted feature clouds hold scan-buffer points.
C11_ScanBufferIsValidInputsInOrder ==
  (last.called /\ last.built) =>
    LET valid == SelectSeq(last.batch, IsValidInput)
        Expected(k) ==
          IF last.hasIMUData
          THEN transformToStartIMU(RemapAxes(valid[k]),
                                   setIMUTransformFor(last.relTimes[k]))
          ELSE RemapAxes(valid[k])
    IN /\ Len(laserCloud) = Len(valid)
       /\ \A k \in DOMAIN valid : laserCloud[k] = Expected(k)
       /\ last.fault = "none" =>
            /\ Indices(last.sharp) \cup Indices(last.lessSharp)
                 \cup Indices(last.flat) \cup Indices(last.lessFlat)
                   \subseteq 0 .. (Len(valid) - 1)
            /\ Elements(published.cornerPointsSharp) \subseteq Elements(laserCloud)
            /\ Elements(published.cornerPointsLessSharp)
                 \subseteq Elements(laserCloud)
            /\ Elements(published.surfacePointsFlat) \subseteq Elements(laserCloud)

\* a scan that loses a NaN point and a near-zero point, keeps a point at the
\* threshold, and yields corners and flat points
C11_InvalidPointsDropped ==
  /\ last.called
  /\ last.emitted
  /\ last.fault = "none"
  /\ \E i \in DOMAIN last.batch : ~last.batch[i].finite
  /\ \E i \in DOMAIN last.batch :
       last.batch[i].finite /\ SquaredNorm(last.batch[i]) < MinSquaredNorm
  /\ \E i \in DOMAIN last.batch : last.batch[i] = PointEdge
  /\ Len(laserCloud) < Len(last.batch)
  /\ last.sharp # <<>>
  /\ last.flat # <<>>

C13_NoEmptyRegionFromTwenty ==
  ( /\ last.called
    /\ config.nFeatureRegions = NumRegionSlots
    /\ last.n >= 20 )
  => /\ last.fault = "none"
     /\ Len(last.regions) = NumRegionSlots
     /\ \A k \in DOMAIN last.regions :
          /\ last.regions[k].ep > last.regions[k].sp
          /\ Interval(last.regions[k]) \subseteq Interior(last.n)
     /\ \A k \in 1 .. (Len(last.regions) - 1) :
          /\ last.regions[k].sp < last.regions[k + 1].sp
          /\ last.regions[k].ep <= last.regions[k + 1].sp

\* 20 valid points: four regions, the smallest of a single point
C13_TwentyPointsFourRegions ==
  /\ last.called
  /\ config.nFeatureRegions = NumRegionSlots
  /\ last.n = 20
  /\ last.fault = "none"
  /\ Len(last.regions) = NumRegionSlots
  /\ \E k \in DOMAIN last.regions :
       last.regions[k].ep = last.regions[k].sp + 1

CornerCount(reg) == CountLabel(reg, CORNER_SHARP) + CountLabel(reg, CORNER_LESS_SHARP)

\* C14: the corner pass of a region goes through the whole curvature-sorted
\* slice of the region: when it ends with fewer than maxCornerLessSharp and
\* fewer than maxCornerSharp * 10 corners, every index of the region that is
\* still unsuppressed and has a curvature above surfaceCurvatureThreshold
\* carries a corner label (so a region of one such point yields a corner).
C14_CornerPassVisitsWholeSlice ==
  (last.called /\ last.fault = "none") =>
    \A k \in DOMAIN last.regions :
      LET reg == last.regions[k]
      IN ( /\ CornerCount(reg) < config.maxCornerLessSharp
           /\ CornerCount(reg) < config.maxCornerSharp * LessSharpFactor )
         => \A i \in reg.open :
              CurvOf(last.prof, i) > config.surfaceCurvatureThreshold
                => reg.label[i - reg.sp] \in {CORNER_SHARP, CORNER_LESS_SHARP}

\* the scan indices of a region whose final label is one of labs
LabelledIn(reg, labs) == {reg.sp + j : j \in {d \in DOMAIN reg.label : reg.label[d] \in labs}}

\* C15: the less-flat candidates of a scan are exactly the points of its
\* regions that end up SURFACE_FLAT or still SURFACE_LESS_FLAT, none that is
\* CORNER_SHARP or CORNER_LESS_SHARP, each once, in scan order, region after
\* region.
C15_LessFlatIsFlatOrDefaultInScanOrder ==
  (last.called /\ last.fault = "none") =>
    /\ \A k \in DOMAIN last.lessFlat : last.lessFlat[k] >= 0
    /\ Indices(last.lessFlat)
         = UNION {LabelledIn(last.regions[k], {SURFACE_FLAT, SURFACE_LESS_FLAT}) :
                    k \in DOMAIN last.regions}
    /\ Indices(last.lessFlat)
         \cap UNION {LabelledIn(last.regions[k], {CORNER_SHARP, CORNER_LESS_SHARP}) :
                       k \in DOMAIN last.regions} = {}
    /\ \A j, k \in DOMAIN last.lessFlat :
         j < k => last.lessFlat[j] < last.lessFlat[k]

\* a scan of four regions, one of which ends with a corner, a flat point and
\* an untouched point
C15_RegionWithAllLabels ==
  /\ AllRegionsDone
  /\ config.nFeatureRegions = NumRegionSlots
  /\ \E k \in DOMAIN last.regions :
       /\ CornerCount(last.regions[k]) > 0
       /\ CountLabel(last.regions[k], SURFACE_FLAT) > 0
       /\ CountLabel(last.regions[k], SURFACE_LESS_FLAT) > 0
  /\ Len(last.lessFlat) > Len(last.flat)
  /\ Len(last.lessFlat) + Len(last.sharp) + Len(last.lessSharp) < last.n

\* C16: with IMU data, every retained point is undistorted with its own
\* normalized in-scan time, so the times handed to the capability differ
\* between the points of a scan, one per retained point; without IMU data no
\* time is handed over and the scan buffer holds the retained points as
\* remapped.
C16_OwnInScanTimePerPoint ==
  (last.called /\ last.built /\ last.fault = "none") =>
    /\ last.hasIMUData =>
         /\ Len(last.relTimes) = last.n
         /\ \A j, k \in DOMAIN last.relTimes :
              j # k => last.relTimes[j] # last.relTimes[k]
         /\ \A k \in DOMAIN laserCloud :
              laserCloud[k]
                = transformToStartIMU(FilterCloud(last.batch)[k],
                                      setIMUTransformFor(last.relTimes[k]))
    /\ ~last.hasIMUData =>
         /\ last.relTimes = <<>>
         /\ laserCloud = FilterCloud(last.batch)

\* the scan indices a call accepted in its corner and surface passes
Accepted == Indices(last.sharp) \cup Indices(last.lessSharp) \cup Indices(last.flat)

\* C17: in every region, a CORNER_SHARP point has a curvature at least that
\* of every CORNER_LESS_SHARP point of the region, every corner has a
\* curvature above surfaceCurvatureThreshold and every SURFACE_FLAT point one
\* below it; a point is accepted only while unsuppressed: its flag was 0
\* after setScanBuffersFor and it lies in the suppression neighbourhood of no
\* other accepted point of the scan.
C17_SelectionRespectsCurvatureOrder ==
  (last.called /\ last.fault = "none") =>
    /\ \A k \in DOMAIN last.regions :
         LET reg == last.regions[k]
         IN /\ \A a \in LabelledIn(reg, {CORNER_SHARP}) :
                 \A b \in LabelledIn(reg, {CORNER_LESS_SHARP}) :
                   CurvOf(last.prof, a) >= CurvOf(last.prof, b)
            /\ \A i \in LabelledIn(reg, {CORNER_SHARP, CORNER_LESS_SHARP}) :
                 CurvOf(last.prof, i) > config.surfaceCurvatureThreshold
            /\ \A i \in LabelledIn(reg, {SURFACE_FLAT}) :
                 CurvOf(last.prof, i) < config.surfaceCurvatureThreshold
    /\ \A i \in Accepted : PickedOf(last.pk, i) = 0
    /\ \A i, e \in Accepted :
         i # e => (i - e > last.r \/ e - i > last.r)

\* a scan with flags set beforehand and a suppression neighbourhood, with a
\* region whose sharp corner has a higher curvature than its less-sharp
\* corner, and with a flat point
C17_OrderedPicksUnderSuppression ==
  /\ AllRegionsDone
  /\ last.pk # "none"
  /\ last.r >= 1
  /\ \E k \in DOMAIN last.regions :
       \E a \in LabelledIn(last.regions[k], {CORNER_SHARP}) :
         \E b \in LabelledIn(last.regions[k], {CORNER_LESS_SHARP}) :
           CurvOf(last.prof, a) > CurvOf(last.prof, b)
  /\ \E k \in DOMAIN last.regions :
       LabelledIn(last.regions[k], {SURFACE_FLAT}) # {}

====
